---- MODULE Spec2Model ----
(***************************************************************************)
(* Model of src/app.py: the citation extractor, the document resolver, the *)
(* citation annotator, the backend client and the chat session controller  *)
(* of the GraphRAG chat interface.                                         *)
(*                                                                         *)
(* A text is a sequence of characters, each character a string.  The       *)
(* non-ASCII characters of the source are written by name: "EURO" is the   *)
(* euro sign, "UUML" the letter u-umlaut, "CROSS" the cross-mark emoji.    *)
(***************************************************************************)
EXTENDS Integers, Sequences, FiniteSets, TLC

VARIABLES
    messages,           \* st.session_state.messages
    show_pdf,           \* st.session_state.show_pdf
    pdf_viewer_open,    \* st.session_state.pdf_viewer_open
    pc,                 \* "idle", or "awaiting" while requests.post is outstanding
    reply,              \* what the backend answered to the latest query
    shown,              \* the st.error notices of the latest script run
    raised,             \* TRUE when an exception escaped main() in the latest run
    ENABLE_PDF_VIEWER,  \* configuration flag, fixed at start
    docs,               \* the two document roots and their files
    call                \* harness of the pure functions: [fn, arg, ret, done]

vars == <<messages, show_pdf, pdf_viewer_open, pc, reply, shown, raised,
          ENABLE_PDF_VIEWER, docs, call>>

\* Python's None, and a value that is not None
None == [some |-> FALSE]
Some(x) == [some |-> TRUE, val |-> x]

----------------------------------------------------------------------------
(* Characters and strings.                                                 *)

UpperSeq == <<"A","B","C","D","E","F","G","H","I","J","K","L","M",
              "N","O","P","Q","R","S","T","U","V","W","X","Y","Z">>
LowerSeq == <<"a","b","c","d","e","f","g","h","i","j","k","l","m",
              "n","o","p","q","r","s","t","u","v","w","x","y","z">>
Digits == <<"0","1","2","3","4","5","6","7","8","9">>

Range(s) == {s[i] : i \in DOMAIN s}

\* str.lower() on one character
LowerChar(c) ==
    IF \E i \in DOMAIN UpperSeq : UpperSeq[i] = c
    THEN LowerSeq[CHOOSE i \in DOMAIN UpperSeq : UpperSeq[i] = c]
    ELSE c

\* str.lower()
Lower(s) == [i \in DOMAIN s |-> LowerChar(s[i])]

\* \s of the regular expressions, and what str.strip() removes
Whitespace == {" ", "\t", "\n", "\r"}

\* s[a..b] as a string (empty when b < a)
Slice(s, a, b) == IF b < a THEN <<>> ELSE SubSeq(s, a, b)

\* s occurs in t at position i
OccursAt(s, t, i) ==
    /\ i >= 1
    /\ i + Len(s) - 1 <= Len(t)
    /\ \A j \in 1..Len(s) : t[i + j - 1] = s[j]

\* the Python operator `s in t`
Contains(t, s) == \E i \in 1..(Len(t) + 1) : OccursAt(s, t, i)

\* str.endswith
EndsWith(t, s) == Len(s) <= Len(t) /\ OccursAt(s, t, Len(t) - Len(s) + 1)

\* str.strip()
Strip(s) ==
    LET keep == {i \in DOMAIN s : s[i] \notin Whitespace}
    IN  IF keep = {} THEN <<>>
        ELSE LET lo == CHOOSE i \in keep : \A j \in keep : i <= j
                 hi == CHOOSE i \in keep : \A j \in keep : j <= i
             IN  SubSeq(s, lo, hi)

\* re.sub(r'[.,;!?]+$', '', s): the trailing run of punctuation is removed.
\* ($ also matches before one final newline; s is stripped, so it has none.)
TrailingPunct == {".", ",", ";", "!", "?"}
StripTrailingPunct(s) ==
    LET keep == {i \in DOMAIN s : s[i] \notin TrailingPunct}
    IN  IF keep = {} THEN <<>>
        ELSE SubSeq(s, 1, CHOOSE i \in keep : \A j \in keep : j <= i)

----------------------------------------------------------------------------
(* Regular expressions, as Python's re matches them (backtracking, greedy  *)
(* quantifiers, alternatives in order), with the flag re.IGNORECASE.       *)
(* A pattern is a sequence of items:                                       *)
(*   lit   a literal string            cls   one character of a class      *)
(*   plus  class+                      star  class*                        *)
(*   opt   (?:items)?                  alt   (?:items|items|...)           *)
(*   bol   ^        eol  $             open, close   the capturing group   *)
(* A class is [neg, set]: the characters in set, or those not in it.       *)

Lit(s) == [t |-> "lit", s |-> s]
Cls(c) == [t |-> "cls", cls |-> c]
Plus(c) == [t |-> "plus", cls |-> c]
Star(c) == [t |-> "star", cls |-> c]
Opt(body) == [t |-> "opt", body |-> body]
Alt(alts) == [t |-> "alt", alts |-> alts]
Bol == [t |-> "bol"]
Eol == [t |-> "eol"]
Open == [t |-> "open"]
Close == [t |-> "close"]

In(set) == [neg |-> FALSE, set |-> set]
NotIn(set) == [neg |-> TRUE, set |-> set]

InClass(c, cls) == (c \in cls.set) # cls.neg

\* a literal matches at pos, ignoring case
LitAt(s, text, pos) ==
    /\ pos + Len(s) - 1 <= Len(text)
    /\ \A j \in 1..Len(s) : LowerChar(text[pos + j - 1]) = LowerChar(s[j])

\* the length of the longest run of class characters starting at pos
RECURSIVE Run(_, _, _)
Run(cls, text, pos) ==
    IF pos <= Len(text) /\ InClass(text[pos], cls)
    THEN 1 + Run(cls, text, pos + 1)
    ELSE 0

\* $ matches at the end of the text and before a final newline
AtEol(text, pos) ==
    \/ pos = Len(text) + 1
    \/ pos = Len(text) /\ text[pos] = "\n"

Fail == [ok |-> FALSE, end |-> 0, gs |-> 0, ge |-> 0]

RECURSIVE Match(_, _, _, _)
RECURSIVE TryRep(_, _, _, _, _, _)
RECURSIVE TryAlt(_, _, _, _, _, _)

\* The first match, in the engine's order of preference, of the items at pos;
\* cap is the capturing group seen so far, <<start, end>>.
Match(items, text, pos, cap) ==
    IF Len(items) = 0
    THEN [ok |-> TRUE, end |-> pos, gs |-> cap[1], ge |-> cap[2]]
    ELSE LET it == Head(items)
             rest == Tail(items)
         IN  CASE it.t = "lit" ->
                    IF LitAt(it.s, text, pos)
                    THEN Match(rest, text, pos + Len(it.s), cap)
                    ELSE Fail
               [] it.t = "cls" ->
                    IF pos <= Len(text) /\ InClass(text[pos], it.cls)
                    THEN Match(rest, text, pos + 1, cap)
                    ELSE Fail
               [] it.t = "plus" ->
                    TryRep(rest, text, pos, cap, Run(it.cls, text, pos), 1)
               [] it.t = "star" ->
                    TryRep(rest, text, pos, cap, Run(it.cls, text, pos), 0)
               [] it.t = "opt" ->
                    LET r == Match(it.body \o rest, text, pos, cap)
                    IN  IF r.ok THEN r ELSE Match(rest, text, pos, cap)
               [] it.t = "alt" ->
                    TryAlt(it.alts, 1, rest, text, pos, cap)
               [] it.t = "bol" ->
                    IF pos = 1 THEN Match(rest, text, pos, cap) ELSE Fail
               [] it.t = "eol" ->
                    IF AtEol(text, pos) THEN Match(rest, text, pos, cap) ELSE Fail
               [] it.t = "open" ->
                    Match(rest, text, pos, <<pos, cap[2]>>)
               [] it.t = "close" ->
                    Match(rest, text, pos, <<cap[1], pos>>)

\* a repetition that takes k characters and never gives one back
TryRepPossessive(rest, text, pos, cap, k, min) ==
    IF k < min THEN Fail ELSE Match(rest, text, pos + k, cap)

\* greedy repetition: k characters, then fewer, never fewer than min
TryRep(rest, text, pos, cap, k, min) ==
    IF k < min THEN Fail
    ELSE LET r == Match(rest, text, pos + k, cap)
         IN  IF r.ok THEN r ELSE TryRep(rest, text, pos, cap, k - 1, min)

\* the alternatives in the order written
TryAlt(alts, n, rest, text, pos, cap) ==
    IF n > Len(alts) THEN Fail
    ELSE LET r == Match(alts[n] \o rest, text, pos, cap)
         IN  IF r.ok THEN r ELSE TryAlt(alts, n + 1, rest, text, pos, cap)

\* re.findall(pattern, text, re.IGNORECASE) for a pattern with one group:
\* the group of every match, leftmost first, matches not overlapping
RECURSIVE FindAllFrom(_, _, _)
FindAllFrom(pattern, text, pos) ==
    IF pos > Len(text) + 1 THEN <<>>
    ELSE LET r == Match(pattern, text, pos, <<0, 0>>)
         IN  IF r.ok
             THEN <<Slice(text, r.gs, r.ge - 1)>>
                  \o FindAllFrom(pattern, text, IF r.end > pos THEN r.end ELSE pos + 1)
             ELSE FindAllFrom(pattern, text, pos + 1)

FindAll(pattern, text) == FindAllFrom(pattern, text, 1)

----------------------------------------------------------------------------
(* extract_citations_from_text                                             *)

\* [A-Za-z0-9_EURO().-]
FilenameChars ==
    Range(UpperSeq) \cup Range(LowerSeq) \cup Range(Digits)
        \cup {"_", "EURO", "(", ")", ".", "-"}

DotPdf == <<".", "p", "d", "f">>
DotTxt == <<".", "t", "x", "t">>
DotPdfDotTxt == DotPdf \o DotTxt

patterns == <<
    \* \[([^[\]]+\.pdf)\]
    << Lit(<<"[">>), Open, Plus(NotIn({"[", "]"})), Lit(DotPdf), Close, Lit(<<"]">>) >>,
    \* Source:\s*([^,\n]+\.pdf)
    << Lit(<<"S","o","u","r","c","e",":">>), Star(In(Whitespace)),
       Open, Plus(NotIn({",", "\n"})), Lit(DotPdf), Close >>,
    \* Quelle:\s*([^,\n]+\.pdf)
    << Lit(<<"Q","u","e","l","l","e",":">>), Star(In(Whitespace)),
       Open, Plus(NotIn({",", "\n"})), Lit(DotPdf), Close >>,
    \* aus\s+(?:dem\s+Dokument\s+)?([^,\s]+\.pdf)
    << Lit(<<"a","u","s">>), Plus(In(Whitespace)),
       Opt(<< Lit(<<"d","e","m">>), Plus(In(Whitespace)),
              Lit(<<"D","o","k","u","m","e","n","t">>), Plus(In(Whitespace)) >>),
       Open, Plus(NotIn({","} \cup Whitespace)), Lit(DotPdf), Close >>,
    \* from\s+([^,\s]+\.pdf)
    << Lit(<<"f","r","o","m">>), Plus(In(Whitespace)),
       Open, Plus(NotIn({","} \cup Whitespace)), Lit(DotPdf), Close >>,
    \* ([A-Za-z0-9_EURO().-]+\.pdf)\.txt
    << Open, Plus(In(FilenameChars)), Lit(DotPdf), Close, Lit(DotTxt) >>,
    \* (?:^|\s)([A-Za-z0-9_EURO().-]+\.pdf)(?:\s|$|[,.])
    << Alt(<< <<Bol>>, <<Cls(In(Whitespace))>> >>),
       Open, Plus(In(FilenameChars)), Lit(DotPdf), Close,
       Alt(<< <<Cls(In(Whitespace))>>, <<Eol>>, <<Cls(In({",", "."}))>> >>) >>
>>

\* ([A-Za-z0-9_EURO().\s-]+\.pdf)\.txt
pdf_txt_pattern ==
    << Open, Plus(In(FilenameChars \cup Whitespace)), Lit(DotPdf), Close, Lit(DotTxt) >>

\* the first loop: every match of every pattern, stripped, its trailing
\* punctuation removed, kept when not empty
PatternCitations(text) ==
    LET cleaned(m) == StripTrailingPunct(Strip(m))
    IN  {c \in {cleaned(m) : m \in UNION {Range(FindAll(patterns[p], text)) : p \in DOMAIN patterns}} :
            c # <<>>}

\* the second pass: every match of pdf_txt_pattern, stripped, kept when not empty
PdfTxtCitations(text) ==
    {c \in {Strip(m) : m \in Range(FindAll(pdf_txt_pattern, text))} : c # <<>>}

\* the last loop: a citation ending in '.pdf.txt' loses its '.txt'
CleanCitation(citation) ==
    IF EndsWith(citation, DotPdfDotTxt)
    THEN SubSeq(citation, 1, Len(citation) - 4)
    ELSE citation

\* The result is list(set): the citations as a set, their order left open.
extract_citations_from_text(text) ==
    {CleanCitation(c) : c \in PatternCitations(text) \cup PdfTxtCitations(text)}

----------------------------------------------------------------------------
(* The document root.  A file is [dir, name]: the directory below the root *)
(* (empty for the root itself) and the file's name.  A root is NoRoot when *)
(* the directory does not exist, else Dir(files), its files in the order a *)
(* recursive traversal meets them.  docs holds the two roots the program   *)
(* looks at: /app/documents (container) and DOCUMENTS_PATH (configured).   *)

NoRoot == [exists |-> FALSE, files |-> <<>>]
Dir(files) == [exists |-> TRUE, files |-> files]

File(dir, name) == [dir |-> dir, name |-> name]

\* the path of a file relative to the root
RelPath(f) == IF f.dir = <<>> THEN f.name ELSE f.dir \o <<"/">> \o f.name

\* lines 79-86: the container path when it exists, else the configured path
docs_path == IF docs.container.exists THEN docs.container ELSE docs.configured

\* Path.name: what follows the last "/"
BaseName(path) ==
    LET slashes == {i \in DOMAIN path : path[i] = "/"}
    IN  IF slashes = {} THEN path
        ELSE Slice(path, (CHOOSE i \in slashes : \A j \in slashes : j <= i) + 1, Len(path))

\* Path.suffix: from the last "." of the name, unless that "." starts or ends the name
Suffix(path) ==
    LET name == BaseName(path)
        dots == {i \in DOMAIN name : name[i] = "."}
    IN  IF dots = {} THEN <<>>
        ELSE LET i == CHOOSE d \in dots : \A e \in dots : e <= d
             IN  IF 1 < i /\ i < Len(name) THEN Slice(name, i, Len(name)) ELSE <<>>

\* docs_path.rglob("*.pdf"): the files whose name ends in ".pdf", in traversal order
IsPdfName(f) == EndsWith(f.name, DotPdf)
Rglob(root) == SelectSeq(root, IsPdfName)

\* the first file of a listing that is a hit, or None
FirstHit(listing, hits) ==
    IF \E i \in DOMAIN listing : listing[i] \in hits
    THEN Some(listing[CHOOSE i \in DOMAIN listing :
                         listing[i] \in hits /\ \A j \in 1..(i - 1) : listing[j] \notin hits])
    ELSE None

\* re.sub(lit + '.*', '', s): from each occurrence of lit to the end of its line
RECURSIVE CutFrom(_, _, _, _)
CutFrom(lit, s, pos, cutting) ==
    IF pos > Len(s) THEN <<>>
    ELSE IF cutting
         THEN IF s[pos] = "\n"
              THEN CutFrom(lit, s, pos, FALSE)
              ELSE CutFrom(lit, s, pos + 1, TRUE)
         ELSE IF OccursAt(lit, s, pos)
              THEN CutFrom(lit, s, pos + Len(lit), TRUE)
              ELSE <<s[pos]>> \o CutFrom(lit, s, pos + 1, FALSE)

\* str.split('_')
RECURSIVE SplitFrom(_, _, _)
SplitFrom(s, pos, cur) ==
    IF pos > Len(s) THEN <<cur>>
    ELSE IF s[pos] = "_"
         THEN <<cur>> \o SplitFrom(s, pos + 1, <<>>)
         ELSE SplitFrom(s, pos + 1, Append(cur, s[pos]))
Split(s) == SplitFrom(s, 1, <<>>)

InsertedOnMarker == <<"_","_","e","i","n","g","e","f","UUML","g","t","_","a","m","_">>

\* line 93: root/candidate exists and its suffix, lower-cased, is '.pdf'
ExactHit(f, clean_filename) ==
    RelPath(f) = clean_filename /\ Lower(Suffix(clean_filename)) = DotPdf
ExactMatch(root, clean_filename) ==
    FirstHit(root, {f \in Range(root) : ExactHit(f, clean_filename)})

\* lines 97-99
CaseInsensitiveHit(f, clean_filename) == Lower(f.name) = Lower(clean_filename)
CaseInsensitiveMatch(root, clean_filename) ==
    FirstHit(Rglob(root), {f \in Range(Rglob(root)) : CaseInsensitiveHit(f, clean_filename)})

\* lines 102-105
PartialHit(f, clean_filename) ==
    Contains(Lower(f.name), Lower(BaseName(clean_filename)))
PartialMatch(root, clean_filename) ==
    FirstHit(Rglob(root), {f \in Range(Rglob(root)) : PartialHit(f, clean_filename)})

\* lines 108-116
FuzzyHit(f, clean_filename) ==
    LET base_filename == Lower(BaseName(clean_filename))
        key_parts == CutFrom(DotPdf, CutFrom(InsertedOnMarker, base_filename, 1, FALSE), 1, FALSE)
        parts == {p \in Range(Split(key_parts)) : Len(p) > 3}
    IN  /\ Len(base_filename) > 10
        /\ \/ Contains(Lower(f.name), key_parts)
           \/ \E p \in parts : Contains(Lower(f.name), p)
FuzzyMatch(root, clean_filename) ==
    FirstHit(Rglob(root), {f \in Range(Rglob(root)) : FuzzyHit(f, clean_filename)})

\* lines 88-118: the tiers in order, the first hit returned
ResolveIn(root, filename) ==
    LET clean_filename == Strip(filename)
        exact == ExactMatch(root, clean_filename)
        insensitive == CaseInsensitiveMatch(root, clean_filename)
        partial == PartialMatch(root, clean_filename)
    IN  IF exact # None THEN exact
        ELSE IF insensitive # None THEN insensitive
        ELSE IF partial # None THEN partial
        ELSE FuzzyMatch(root, clean_filename)

find_pdf_file(filename) ==
    IF ~ENABLE_PDF_VIEWER THEN None
    ELSE IF ~docs_path.exists THEN None
    ELSE ResolveIn(docs_path.files, filename)

----------------------------------------------------------------------------
(* create_citation_links                                                   *)

\* str.replace(old, new), old not empty: every occurrence, left to right,
\* the occurrences not overlapping
RECURSIVE ReplaceFrom(_, _, _, _)
ReplaceFrom(text, old, new, pos) ==
    LET found == {i \in pos..Len(text) : OccursAt(old, text, i)}
    IN  IF found = {} THEN Slice(text, pos, Len(text))
        ELSE LET i == CHOOSE k \in found : \A j \in found : k <= j
             IN  Slice(text, pos, i - 1) \o new \o ReplaceFrom(text, old, new, i + Len(old))
Replace(text, old, new) == ReplaceFrom(text, old, new, 1)

\* line 150: the three fixed parts of link_html
LinkOpen ==
    <<"<","s","p","a","n"," ","s","t","y","l","e","=","\"","c","o","l","o",
        "r",":"," ","#","1","f","7","7","b","4",";"," ","c","u","r","s","o",
        "r",":"," ","p","o","i","n","t","e","r",";"," ","t","e","x","t","-",
        "d","e","c","o","r","a","t","i","o","n",":"," ","u","n","d","e","r",
        "l","i","n","e",";","\""," ","o","n","c","l","i","c","k","=","\"","w",
        "i","n","d","o","w",".","p","a","r","e","n","t",".","p","o","s","t",
        "M","e","s","s","a","g","e","(","{","t","y","p","e",":"," ","'","s",
        "h","o","w","_","p","d","f","'",","," ","f","i","l","e","n","a","m",
        "e",":"," ","'">>
LinkMiddle == <<"'","}",","," ","'","*","'",")","\"",">">>
LinkClose == <<"<","/","s","p","a","n",">">>

link_html(citation) == LinkOpen \o citation \o LinkMiddle \o citation \o LinkClose

\* lines 145-151: one turn of the loop
LinkCitation(text, citation) ==
    IF find_pdf_file(citation) # None
    THEN Replace(text, citation, link_html(citation))
    ELSE text

\* lines 144-151, the citations taken in the order given.  (The text after
\* one turn is bound as a value before the next turn reads it.)
RECURSIVE LinkCitations(_, _)
LinkCitations(text, citations) ==
    IF citations = <<>> THEN text
    ELSE CHOOSE result \in {LinkCitations(linked, Tail(citations)) :
                               linked \in {LinkCitation(text, Head(citations))}} : TRUE

\* the orders in which list(set) may hand over the elements of a set
Orders(S) ==
    {o \in [1..Cardinality(S) -> S] : \A i, j \in DOMAIN o : o[i] = o[j] => i = j}

\* create_citation_links(text), its citations iterated in the given order
create_citation_links(text, order) ==
    IF ~ENABLE_PDF_VIEWER THEN text
    ELSE LinkCitations(text, order)

----------------------------------------------------------------------------
(* Python values decoded from JSON: None, or [type, ...].                  *)

PyDict(fields) == [type |-> "dict", fields |-> fields]
PyList(items) == [type |-> "list", items |-> items]
PyStr(val) == [type |-> "str", val |-> val]
PyInt(val) == [type |-> "int", val |-> val]
EmptyDict == PyDict([k \in {} |-> None])

\* bool(v)
Truthy(v) ==
    IF v = None THEN FALSE
    ELSE CASE v.type = "dict" -> DOMAIN v.fields # {}
           [] v.type = "list" -> v.items # <<>>
           [] v.type = "str" -> v.val # <<>>
           [] v.type = "int" -> v.val # 0

\* dict.get(key, default)
Get(d, key, default) == IF key \in DOMAIN d.fields THEN d.fields[key] ELSE default

\* str(n) for n >= 0
RECURSIVE IntToStr(_)
IntToStr(n) ==
    IF n < 10 THEN <<Digits[n + 1]>>
    ELSE IntToStr(n \div 10) \o <<Digits[(n % 10) + 1]>>

\* what an f-string makes of a value
Format(v) ==
    IF v = None THEN <<"N","o","n","e">>
    ELSE CASE v.type = "str" -> v.val
           [] v.type = "int" -> IntToStr(v.val)

----------------------------------------------------------------------------
(* The backend of the model: the replies a query can get.                  *)

FoundInA == <<"F","o","u","n","d"," ","i","n"," ","[","a",".","p","d","f","]">>
SeeB == <<"S","e","e"," ","b",".","p","d","f",".">>
Ok == <<"o","k">>
Boom == <<"b","o","o","m">>
Oops == <<"o","o","p","s">>
TimedOut == <<"t","i","m","e","d"," ","o","u","t">>

BodyFoundInA == <<"{","\"","r","e","s","p","o","n","s","e","\"",":"," ","\"","F","o","u",
        "n","d"," ","i","n"," ","[","a",".","p","d","f","]","\"",","," ","\"",
        "l","l","m","_","c","a","l","l","s","\"",":"," ","2","}">>
BodySeeB == <<"{","\"","r","e","s","p","o","n","s","e","\"",":"," ","\"","S","e","e",
        " ","b",".","p","d","f",".","\"",","," ","\"","l","l","m","_","c","a",
        "l","l","s","\"",":"," ","1","}">>
BodyError == <<"{","\"","e","r","r","o","r","\"",":"," ","\"","b","o","o","m","\"","}">>
BodyEmptyError == <<"{","\"","r","e","s","p","o","n","s","e","\"",":"," ","\"","o","k",
        "\"",","," ","\"","e","r","r","o","r","\"",":"," ","\"","\"","}">>
BodyList == <<"[","1","]">>
BodyEmptyDict == <<"{","}">>
BodyNoResponse == <<"{","\"","l","l","m","_","c","a","l","l","s","\"",":"," ","2","}">>
BodyNull == <<"n","u","l","l">>

----------------------------------------------------------------------------
(* query_backend.  What requests.post did is a reply:                      *)
(*   [kind |-> "response", status_code, text]         an HTTP response     *)
(*   [kind |-> "RequestException", message]           a transport failure  *)
(*   [kind |-> "Exception", message]                  any other failure    *)

\* the body is not JSON: response.json() raises
NotJson == [type |-> "NotJson"]

Response(status_code, text) ==
    [kind |-> "response", status_code |-> status_code, text |-> text]
Raises(kind, message) == [kind |-> kind, message |-> message]

\* a notice of the failed call that leaves out the body of the response
ApiErrorNoticeWithoutBody(status_code, text) ==
    <<"A","P","I"," ","E","r","r","o","r",":"," ">> \o IntToStr(status_code)

ApiErrorNotice(status_code, text) ==
    <<"A","P","I"," ","E","r","r","o","r",":"," ">> \o IntToStr(status_code) \o <<" ","-"," ">> \o text
ConnectionErrorNotice(message) == <<"C","o","n","n","e","c","t","i","o","n"," ","e","r","r","o","r",":"," ">> \o message
UnexpectedErrorNotice(message) == <<"U","n","e","x","p","e","c","t","e","d"," ","e","r","r","o","r",":"," ">> \o message

\* response.json(): the decoding of the bodies the modelled backend sends
JsonDecode(text) ==
    CASE text = BodyFoundInA ->
            PyDict([response |-> PyStr(FoundInA), llm_calls |-> PyInt(2)])
      [] text = BodySeeB ->
            PyDict([response |-> PyStr(SeeB), llm_calls |-> PyInt(1)])
      [] text = BodyError -> PyDict([error |-> PyStr(Boom)])
      [] text = BodyEmptyError ->
            PyDict([response |-> PyStr(Ok), error |-> PyStr(<<>>)])
      [] text = BodyList -> PyList(<<PyInt(1)>>)
      [] text = BodyEmptyDict -> EmptyDict
      [] text = BodyNoResponse -> PyDict([llm_calls |-> PyInt(2)])
      [] text = BodyNull -> None
      [] OTHER -> NotJson

\* str(e) of the error response.json() raises on a body that is not JSON
JsonErrorMessage == <<"E","x","p","e","c","t","i","n","g"," ","v","a","l","u","e">>

\* lines 155-184: the value returned and the st.error notices shown.
\* response.json() on a body that is not JSON raises an error that is a
\* RequestException in some releases of the library and a ValueError in
\* others: json_error_is_request_exception says which.
query_backend(r, json_error_is_request_exception) ==
    CASE r.kind = "RequestException" ->
            [result |-> None, errors |-> {ConnectionErrorNotice(r.message)}]
      [] r.kind = "Exception" ->
            [result |-> None, errors |-> {UnexpectedErrorNotice(r.message)}]
      [] r.kind = "response" ->
            IF r.status_code = 200
            THEN IF JsonDecode(r.text) = NotJson
                 THEN [result |-> None,
                       errors |-> {IF json_error_is_request_exception
                                   THEN ConnectionErrorNotice(JsonErrorMessage)
                                   ELSE UnexpectedErrorNotice(JsonErrorMessage)}]
                 ELSE [result |-> JsonDecode(r.text), errors |-> {}]
            ELSE [result |-> None, errors |-> {ApiErrorNotice(r.status_code, r.text)}]

----------------------------------------------------------------------------
(* main: one script run per user action.                                   *)

NoResponseReceived == <<"N","o"," ","r","e","s","p","o","n","s","e"," ","r","e","c","e","i",
        "v","e","d">>
ErrorPrefix == <<"CROSS">> \o <<" ","E","r","r","o","r",":"," ">>
FailedMessage == <<"CROSS">> \o <<" ","F","a","i","l","e","d"," ","t","o"," ","g","e","t"," ","r","e",
        "s","p","o","n","s","e"," ","f","r","o","m"," ","t","h","e"," ","b",
        "a","c","k","e","n","d",".">>
PdfNotFoundPrefix == <<"P","D","F"," ","n","i","c","h","t"," ","g","e","f","u","n","d","e",
        "n",":"," ">>

UserTurn(content) == [role |-> "user", content |-> content]
AssistantTurn(content) == [role |-> "assistant", content |-> content]
AssistantTurnWithMetadata(content, metadata) ==
    [role |-> "assistant", content |-> content, metadata |-> metadata]

\* `if st.session_state.pdf_viewer_open and st.session_state.show_pdf`
ViewerShown(open, target) == open /\ target # None /\ target.val # <<>>

\* lines 235-242: the notice of the viewer section
ViewerNotices(open, target) ==
    IF ViewerShown(open, target) /\ find_pdf_file(target.val) = None
    THEN {PdfNotFoundPrefix \o target.val}
    ELSE {}

\* lines 314-346: what the run does with the value query_backend returned:
\* the turn appended (None when an exception escapes first), the notice
\* shown with it, and whether an exception escaped.  The content of a turn
\* is a text: the 'response' of a reply is taken to be a string.
HandleResponse(response_data) ==
    IF Truthy(response_data)
    THEN IF response_data.type # "dict"
         THEN \* response_data.get raises AttributeError
              [turn |-> None, errors |-> {}, raised |-> TRUE]
         ELSE IF ~Truthy(Get(response_data, "error", None))
              THEN [turn |-> Some(AssistantTurnWithMetadata(
                                    Get(response_data, "response", PyStr(NoResponseReceived)).val,
                                    response_data)),
                    errors |-> {}, raised |-> FALSE]
              ELSE [turn |-> Some(AssistantTurn(ErrorPrefix \o Format(response_data.fields["error"]))),
                    errors |-> {ErrorPrefix \o Format(response_data.fields["error"])},
                    raised |-> FALSE]
    ELSE [turn |-> Some(AssistantTurn(FailedMessage)),
          errors |-> {FailedMessage}, raised |-> FALSE]

BackendReplies ==
    { Response(200, BodyFoundInA), Response(200, BodySeeB),
      Response(200, BodyError), Response(200, BodyEmptyError),
      Response(200, Oops), Response(200, BodyList),
      Response(200, BodyEmptyDict), Response(200, BodyNoResponse),
      Response(200, BodyNull), Response(500, Oops),
      Raises("RequestException", TimedOut), Raises("Exception", Boom) }

\* line 249: the citations of every content an assistant turn can have with
\* these replies, computed once
AssistantContents ==
    LET handled == {HandleResponse(query_backend(r, b).result) : r \in BackendReplies, b \in BOOLEAN}
    IN  {h.turn.val.content : h \in {g \in handled : g.turn # None}}
CitationsOf == [content \in AssistantContents |-> extract_citations_from_text(content)]

\* lines 247-271: the citation buttons shown under message i
CitationButtons(i) ==
    IF messages[i].role = "assistant" /\ ENABLE_PDF_VIEWER
    THEN IF messages[i].content \in DOMAIN CitationsOf
         THEN CitationsOf[messages[i].content]
         ELSE extract_citations_from_text(messages[i].content)
    ELSE {}

Prompts == { <<"W","h","a","t"," ","i","s"," ","X","?">> }

\* the most turns the transcript holds when a query is submitted, plus two
MaxTurns == 4

NoCall == [fn |-> "none"]

\* the document roots of the sessions explored
FileA == File(<<>>, <<"a",".","p","d","f">>)
SessionRoots ==
    { [container |-> NoRoot, configured |-> NoRoot],
      [container |-> NoRoot, configured |-> Dir(<<FileA>>)],
      [container |-> Dir(<<>>), configured |-> Dir(<<FileA>>)] }

\* st.session_state at the start of a session (lines 190-194, 231-232)
SessionStart ==
    /\ messages = <<>>
    /\ show_pdf = None
    /\ pdf_viewer_open = FALSE
    /\ pc = "idle"
    /\ reply = None
    /\ shown = {}
    /\ raised = FALSE

Init ==
    /\ SessionStart
    /\ ENABLE_PDF_VIEWER \in BOOLEAN
    /\ docs \in SessionRoots
    /\ call = NoCall

\* lines 295-312: the user submits a prompt; the run renders the page, appends
\* the user turn and waits in requests.post
Submit(prompt) ==
    /\ pc = "idle"
    /\ Len(messages) + 2 <= MaxTurns
    /\ messages' = Append(messages, UserTurn(prompt))
    /\ pc' = "awaiting"
    /\ reply' = None
    /\ shown' = ViewerNotices(pdf_viewer_open, show_pdf)
    /\ raised' = FALSE
    /\ UNCHANGED <<show_pdf, pdf_viewer_open, ENABLE_PDF_VIEWER, docs, call>>

\* lines 166-184, 314-346: requests.post returns or raises, and the run goes on
\* to its end
Respond(r, json_error_is_request_exception) ==
    /\ pc = "awaiting"
    /\ LET q == query_backend(r, json_error_is_request_exception)
           h == HandleResponse(q.result)
       IN  /\ messages' = IF h.turn = None THEN messages ELSE Append(messages, h.turn.val)
           /\ shown' = shown \cup q.errors \cup h.errors
           /\ raised' = h.raised
    /\ reply' = Some(r)
    /\ pc' = "idle"
    /\ UNCHANGED <<show_pdf, pdf_viewer_open, ENABLE_PDF_VIEWER, docs, call>>

\* an activation that sets the target and leaves the viewer closed
ActivateWithoutOpening(i, citation) ==
    /\ pc = "idle"
    /\ citation \in CitationButtons(i)
    /\ show_pdf' = Some(citation)
    /\ shown' = ViewerNotices(pdf_viewer_open, Some(citation))
    /\ raised' = FALSE
    /\ UNCHANGED <<messages, pdf_viewer_open, pc, reply, ENABLE_PDF_VIEWER, docs, call>>

\* lines 266-271: the button of a citation under message i is pressed; the
\* state is set and the page is drawn again
ActivateCitation(i, citation) ==
    /\ pc = "idle"
    /\ citation \in CitationButtons(i)
    /\ show_pdf' = Some(citation)
    /\ pdf_viewer_open' = TRUE
    /\ shown' = ViewerNotices(TRUE, Some(citation))
    /\ raised' = FALSE
    /\ UNCHANGED <<messages, pc, reply, ENABLE_PDF_VIEWER, docs, call>>

\* lines 201-209: the close button of the sidebar, shown while the viewer is
\* open
ClosePdf ==
    /\ pc = "idle"
    /\ ENABLE_PDF_VIEWER
    /\ ViewerShown(pdf_viewer_open, show_pdf)
    /\ pdf_viewer_open' = FALSE
    /\ show_pdf' = None
    /\ shown' = {}
    /\ raised' = FALSE
    /\ UNCHANGED <<messages, pc, reply, ENABLE_PDF_VIEWER, docs, call>>

\* a reset of the transcript that leaves the viewer as it is
ClearChatKeepsViewer ==
    /\ pc = "idle"
    /\ ~raised
    /\ messages' = <<>>
    /\ reply' = None
    /\ shown' = {}
    /\ UNCHANGED <<show_pdf, pdf_viewer_open, pc, raised, ENABLE_PDF_VIEWER, docs, call>>

\* lines 348-353: the clear button, the last widget of the page: a run that an
\* exception ended did not draw it
ClearChat ==
    /\ pc = "idle"
    /\ ~raised
    /\ messages' = <<>>
    /\ pdf_viewer_open' = FALSE
    /\ show_pdf' = None
    /\ reply' = None
    /\ shown' = {}
    /\ UNCHANGED <<pc, raised, ENABLE_PDF_VIEWER, docs, call>>

Next ==
    \/ \E prompt \in Prompts : Submit(prompt)
    \/ \E r \in BackendReplies, b \in BOOLEAN : Respond(r, b)
    \/ \E i \in DOMAIN messages : \E citation \in CitationButtons(i) : ActivateCitation(i, citation)
    \/ ClosePdf
    \/ ClearChat

Spec == Init /\ [][Next]_vars

----------------------------------------------------------------------------
(* The pure functions, each applied to inputs drawn from bounded sets.     *)

\* every text made of at most n of the fragments
RECURSIVE TextsOf(_, _)
TextsOf(fragments, n) ==
    IF n = 0 THEN {<<>>}
    ELSE LET shorter == TextsOf(fragments, n - 1)
         IN  shorter \cup {t \o f : t \in shorter, f \in fragments}

\* every listing of at most n files of the pool, no file twice, the files of
\* the root directory before those of its subdirectories (the traversal
\* visits a directory before the directories below it)
ListingsOf(pool, n) ==
    UNION { {l \in [1..k -> pool] :
                /\ \A i, j \in 1..k : l[i] = l[j] => i = j
                /\ \A i, j \in 1..k : (l[i].dir # <<>> /\ l[j].dir = <<>>) => j < i}
            : k \in 0..n }

Called(fn, arg) == [fn |-> fn, arg |-> arg, ret |-> None, done |-> FALSE]

\* extract_citations_from_text
ExtractFragments == { <<"a">>, <<".","p","d","f">>, <<".","t","x","t">>, <<" ">>, <<"UUML">> }
MaxFragments == 5

ExtractInit ==
    /\ SessionStart
    /\ ENABLE_PDF_VIEWER = TRUE
    /\ docs = [container |-> NoRoot, configured |-> NoRoot]
    /\ call \in {Called("extract_citations_from_text", text) :
                    text \in TextsOf(ExtractFragments, MaxFragments)}

CallExtract ==
    /\ call.fn = "extract_citations_from_text"
    /\ ~call.done
    /\ call' = [call EXCEPT !.ret = extract_citations_from_text(call.arg), !.done = TRUE]
    /\ UNCHANGED <<messages, show_pdf, pdf_viewer_open, pc, reply, shown, raised,
                   ENABLE_PDF_VIEWER, docs>>

SpecExtract == ExtractInit /\ [][CallExtract]_vars

\* find_pdf_file
FilePool ==
    { File(<<>>, <<"a",".","p","d","f">>), File(<<>>, <<"x","a",".","p","d","f">>), File(<<>>, <<"a",".","P","D","F">>),
      File(<<"e">>, <<"a",".","p","d","f">>), File(<<>>, <<"r","e","p","o","r","t","_","f","i","n","a","l","_","v","2",".","p","d","f">>) }
MaxFiles == 2
Candidates ==
    { <<"a",".","p","d","f">>, <<"A",".","p","d","f">>, <<"a",".","P","D","F">>, <<"d","/","a",".","p","d","f">>, <<"e","/","a",".","p","d","f">>, <<"b",".","p","d","f">>,
      <<" ","a",".","p","d","f">>, <<"r","e","p","o","r","t","_","f","i","n","a","l",".","p","d","f">>, <<"n","o","n","e","x","i","s","t","e","n","t","_","x","y","z",".","p","d","f">> }

ResolveRoots ==
    {[container |-> NoRoot, configured |-> root] :
        root \in {Dir(l) : l \in ListingsOf(FilePool, MaxFiles)} \cup {NoRoot}}
    \cup {[container |-> Dir(l), configured |-> Dir(<<FileA>>)] : l \in ListingsOf(FilePool, 1)}

ResolveInit ==
    /\ SessionStart
    /\ ENABLE_PDF_VIEWER \in BOOLEAN
    /\ docs \in ResolveRoots
    /\ call \in {Called("find_pdf_file", filename) : filename \in Candidates}

CallResolve ==
    /\ call.fn = "find_pdf_file"
    /\ ~call.done
    /\ call' = [call EXCEPT !.ret = find_pdf_file(call.arg), !.done = TRUE]
    /\ UNCHANGED <<messages, show_pdf, pdf_viewer_open, pc, reply, shown, raised,
                   ENABLE_PDF_VIEWER, docs>>

SpecResolve == ResolveInit /\ [][CallResolve]_vars

\* create_citation_links
AnnotateFragments == { <<"[","a",".","p","d","f","]">>, <<" ","x","a",".","p","d","f"," ">>, <<"[","b",".","p","d","f","]">>, <<"s","e","e"," ">>, <<"a",".","p","d","f">> }
MaxAnnotateFragments == 3
AnnotateRoots ==
    {[container |-> NoRoot, configured |-> Dir(l)] :
        l \in { <<>>, <<File(<<>>, <<"a",".","p","d","f">>)>>,
                <<File(<<>>, <<"a",".","p","d","f">>), File(<<>>, <<"x","a",".","p","d","f">>)>> }}

AnnotateInit ==
    /\ SessionStart
    /\ ENABLE_PDF_VIEWER \in BOOLEAN
    /\ docs \in AnnotateRoots
    /\ call \in {Called("create_citation_links", text) :
                    text \in TextsOf(AnnotateFragments, MaxAnnotateFragments)}

\* line 142-144: the citations are iterated in the order list(set) gives them
CallAnnotate ==
    /\ call.fn = "create_citation_links"
    /\ ~call.done
    /\ \E order \in Orders(extract_citations_from_text(call.arg)) :
          call' = [call EXCEPT !.ret = create_citation_links(call.arg, order), !.done = TRUE]
    /\ UNCHANGED <<messages, show_pdf, pdf_viewer_open, pc, reply, shown, raised,
                   ENABLE_PDF_VIEWER, docs>>

SpecAnnotate == AnnotateInit /\ [][CallAnnotate]_vars

----------------------------------------------------------------------------
(* The claims.                                                             *)

Last(s) == s[Len(s)]
IsPrefix(s, t) == Len(s) <= Len(t) /\ SubSeq(t, 1, Len(s)) = s

\* the characters of a filename token: letters, digits and _ EURO ( ) . -
TokenChars ==
    Range(UpperSeq) \cup Range(LowerSeq) \cup Range(Digits)
        \cup {"_", "EURO", "(", ")", ".", "-"}

\* the filename tokens of a text: its maximal runs of token characters
FilenameTokens(text) ==
    {SubSeq(text, a, b) : <<a, b>> \in
        {<<a, b>> \in (DOMAIN text) \X (DOMAIN text) :
            /\ a <= b
            /\ \A i \in a..b : text[i] \in TokenChars
            /\ a = 1 \/ text[a - 1] \notin TokenChars
            /\ b = Len(text) \/ text[b + 1] \notin TokenChars}}

\* the tokens of the form F.pdf.txt, F not empty (letter case ignored)
PdfTxtTokens(text) ==
    {w \in FilenameTokens(text) :
        Len(w) > Len(DotPdfDotTxt) /\ EndsWith(Lower(w), DotPdfDotTxt)}

\* C8: for every text with a filename token F.pdf.txt, the extracted
\* citations contain F.pdf, the token without its secondary suffix, and no
\* extracted citation ends in '.pdf.txt'.
C8_SecondarySuffixStripped ==
    (call.fn = "extract_citations_from_text" /\ call.done) =>
        /\ \A w \in PdfTxtTokens(call.arg) : SubSeq(w, 1, Len(w) - 4) \in call.ret
        /\ \A c \in call.ret : ~EndsWith(Lower(c), DotPdfDotTxt)

\* C8 witness: a text whose token carries the suffix twice, F = "a.pdf.txt"
\* kept whole in the citation
C8_Witness ==
    /\ call.fn = "extract_citations_from_text"
    /\ call.done
    /\ DotPdfDotTxt \o DotPdfDotTxt \in {SubSeq(w, 2, Len(w)) : w \in PdfTxtTokens(call.arg)}
    /\ \E w \in PdfTxtTokens(call.arg) :
          Len(w) = 17 /\ SubSeq(w, 1, Len(w) - 4) \in call.ret

\* the text with every occurrence of a resolved citation replaced by its
\* marker, all replacements made against the original text (at a position
\* where several resolved citations start, the longest is taken)
RECURSIVE MarkFrom(_, _, _)
MarkFrom(text, resolved, pos) ==
    IF pos > Len(text) THEN <<>>
    ELSE LET here == {c \in resolved : OccursAt(c, text, pos)}
         IN  IF here = {}
             THEN <<text[pos]>> \o MarkFrom(text, resolved, pos + 1)
             ELSE LET c == CHOOSE d \in here : \A e \in here : Len(e) <= Len(d)
                  IN  link_html(c) \o MarkFrom(text, resolved, pos + Len(c))

ResolvedCitations(text) ==
    {c \in extract_citations_from_text(text) : find_pdf_file(c) # None}

\* C1: the annotated text is the original text with every occurrence of each
\* resolved citation replaced once by its marker, nothing replaced inside a
\* marker, whatever the order the citations are processed in.
C1_AnnotatesAgainstOriginal ==
    (call.fn = "create_citation_links" /\ call.done /\ ENABLE_PDF_VIEWER) =>
        call.ret = MarkFrom(call.arg, ResolvedCitations(call.arg), 1)

\* the tiers as the claim C2 states them
ClaimedTierHits(root, candidate) ==
    LET pdfs == Range(Rglob(root))
    IN  << {f \in Range(root) : ExactHit(f, candidate)},
           {f \in pdfs : Lower(f.name) = Lower(BaseName(candidate))},
           {f \in pdfs : PartialHit(f, candidate)},
           {f \in pdfs : FuzzyHit(f, candidate)} >>

\* C2: find_pdf_file returns a hit of the first tier that has any hit (exact
\* path, base filename equal ignoring case, base filename contained, fuzzy),
\* and None exactly when no tier has a hit.
C2_FirstTierWithHitWins ==
    (call.fn = "find_pdf_file" /\ call.done /\ ENABLE_PDF_VIEWER /\ docs_path.exists) =>
        LET tiers == ClaimedTierHits(docs_path.files, Strip(call.arg))
            wins == {n \in 1..4 : tiers[n] # {} /\ \A m \in 1..(n - 1) : tiers[m] = {}}
        IN  IF wins = {} THEN call.ret = None
            ELSE call.ret # None /\ \A n \in wins : call.ret.val \in tiers[n]

\* C3: whenever the controller is idle, the transcript alternates user and
\* assistant turns and has even length: every submission got its one
\* assistant turn.
C3_TranscriptAlternates ==
    pc = "idle" =>
        /\ Len(messages) % 2 = 0
        /\ \A i \in DOMAIN messages :
              messages[i].role = (IF i % 2 = 1 THEN "user" ELSE "assistant")

\* the response text a successful payload carries
ResponseText(metadata) == Get(metadata, "response", PyStr(NoResponseReceived)).val

\* C4: an assistant turn appended for a successful response has as content
\* the annotated response text and as metadata the usage fields of the
\* response.
C4_SuccessTurnIsAnnotated ==
    \A i \in DOMAIN messages :
        (messages[i].role = "assistant" /\ "metadata" \in DOMAIN messages[i]) =>
            LET raw == ResponseText(messages[i].metadata)
            IN  messages[i].content \in
                    {create_citation_links(raw, order) :
                        order \in Orders(extract_citations_from_text(raw))}

\* the run of the latest query is over and its reply was an HTTP response
Answered == pc = "idle" /\ reply # None /\ reply.val.kind = "response"

\* the latest query left an error turn: an assistant turn without metadata
ErrorTurnAppended ==
    /\ messages # <<>>
    /\ Last(messages).role = "assistant"
    /\ "metadata" \notin DOMAIN Last(messages)

\* the 'error' field of a decoded body that is an object with one, else None
ErrorField(text) ==
    LET v == JsonDecode(text)
    IN  IF v # None /\ v.type = "dict" THEN Get(v, "error", None) ELSE None

UnexpectedShape(text) ==
    LET v == JsonDecode(text)
    IN  \/ v = NotJson
        \/ v = None
        \/ v.type # "dict"
        \/ v = EmptyDict
        \/ (v.type = "dict" /\ "response" \notin DOMAIN v.fields /\ ~Truthy(Get(v, "error", None)))

\* C6: after a 200 response with a payload of unexpected shape no exception
\* has escaped and the generic error turn is the last turn.
C6_MalformedPayloadHandled ==
    (Answered /\ reply.val.status_code = 200 /\ UnexpectedShape(reply.val.text)) =>
        /\ ~raised
        /\ messages # <<>>
        /\ Last(messages) = AssistantTurn(FailedMessage)

\* C7: a citation of an assistant turn that resolves to no document is
\* offered no button, is never the target of the viewer, and no notice about
\* it is shown.
C7_ResolutionMissSilent ==
    \A i \in DOMAIN messages :
        messages[i].role = "assistant" =>
            \A c \in extract_citations_from_text(messages[i].content) :
                find_pdf_file(c) = None =>
                    /\ c \notin CitationButtons(i)
                    /\ show_pdf # Some(c)
                    /\ \A notice \in shown : ~Contains(notice, c)

ViewerReset == show_pdf = None /\ pdf_viewer_open = FALSE

\* C9: every step either keeps the turns of the transcript as a prefix of
\* the new transcript or is the reset; the reset leaves the transcript empty
\* and the viewer closed with no target.
C9_AppendOnlyExceptReset ==
    [][/\ ClearChat => (messages' = <<>> /\ ViewerReset')
       /\ ~ClearChat => IsPrefix(messages, messages')
      ]_vars

\* C9 witness: two exchanges are on the transcript, the viewer is open, and
\* the reset can be taken
C9_Witness ==
    /\ Len(messages) = 4
    /\ pdf_viewer_open
    /\ show_pdf # None
    /\ ENABLED ClearChat

\* C10: the viewer state changes only by an activation, to the citation of a
\* button and open, or by close or reset, to no target and closed; a step
\* that submits a query or receives the reply leaves it as it is; and the
\* viewer is open exactly when it has a target.
C10_ViewerStateFrame ==
    /\ [](pdf_viewer_open <=> show_pdf # None)
    /\ [][/\ \/ UNCHANGED <<show_pdf, pdf_viewer_open>>
             \/ /\ pdf_viewer_open'
                /\ \E i \in DOMAIN messages : \E c \in CitationButtons(i) : show_pdf' = Some(c)
                /\ UNCHANGED messages
             \/ ViewerReset'
          /\ pc' # pc => UNCHANGED <<show_pdf, pdf_viewer_open>>
         ]_vars

\* C10 witness: a query is outstanding while the viewer, opened by an
\* activation after the first exchange, is still open on its citation
C10_Witness ==
    /\ pc = "awaiting"
    /\ Len(messages) = 3
    /\ pdf_viewer_open
    /\ show_pdf \in {Some(c) : c \in CitationButtons(2)}

====
